---- MODULE Spec2Model ----
(***************************************************************************)
(* Model of package itf of go-hmccu: the HomeMatic interface Handler       *)
(* (handler.go, server role) and the interface Client (client.go, client   *)
(* role).  The Value/Query layer and the domain records' ReadFrom live in  *)
(* other packages of the repository and are modelled after the             *)
(* specification (sections 3, 4.1, 4.2).                                   *)
(***************************************************************************)
EXTENDS Integers, Sequences, FiniteSets, TLC

VARIABLES
    recvLog,     \* the Receiver's state: names of the callbacks invoked so far
    dispatched,  \* number of inbound calls dispatched so far
    hLast,       \* the last inbound call: method, args, Receiver return, outcome
    Addr,        \* Client.Addr (a sequence of characters)
    rpcClient,   \* Client.rpcClient: which transport the Client embeds
    issued,      \* number of Client operations issued so far
    cLast,       \* the last Client operation: op, input, transport reply, outcome
    registry,    \* the Handler's method registry: the registered method names
    inflight,    \* the inbound calls being served concurrently, one per connection
    arrivals     \* the connections in the order their calls arrived

vars == <<recvLog, dispatched, hLast, Addr, rpcClient, issued, cLast,
          registry, inflight, arrivals>>
\* the state of the concurrently served calls
kvars == <<registry, inflight, arrivals>>
hvars == <<recvLog, dispatched, hLast, registry, inflight, arrivals>>
cvars == <<Addr, rpcClient, issued, cLast>>

----------------------------------------------------------------------------
(* Bounds of the model *)

\* inbound calls dispatched in one behaviour
MaxDispatch == 2
\* client operations issued in one behaviour
MaxIssued == 2
\* arguments supplied beyond a method's arity
MaxExtra == 1
\* length of the address / device lists of inbound calls
MaxListLen == 2
\* inbound calls served at the same time
MaxInFlight == 2

----------------------------------------------------------------------------
(* Value: a tagged union; k is the variant, p its payload *)

StrV(s) == [k |-> "string", p |-> s]
IntV(i) == [k |-> "int", p |-> i]
BoolV(b) == [k |-> "bool", p |-> b]
ArrV(a) == [k |-> "array", p |-> a]
MapV(m) == [k |-> "struct", p |-> m]
\* a nil *Value (no response value)
NoValue == [k |-> "nil", p |-> ""]

(* Query: a cursor v over a Value and the sticky error slot e that every   *)
(* Query derived from it shares.                                           *)
NoFault == "none"
Q(v) == [v |-> v, e |-> NoFault]
\* the Query on v that shares the (possibly set) error slot e
Share(v, e) == [v |-> v, e |-> e]
\* result r of a terminal accessor together with the error slot e after it
Res(r, e) == [r |-> r, e |-> e]

Slice(q) ==
    IF q.e # NoFault THEN Res(<<>>, q.e)
    ELSE IF q.v.k # "array" THEN Res(<<>>, "TypeMismatch")
    ELSE Res(q.v.p, NoFault)

Idx(q, i) ==
    IF q.e # NoFault THEN q
    ELSE IF q.v.k # "array" \/ i < 0 \/ i >= Len(q.v.p)
         THEN Share(NoValue, "IndexOutOfRange")
    ELSE Share(q.v.p[i + 1], NoFault)

Key(q, name) ==
    IF q.e # NoFault THEN q
    ELSE IF q.v.k # "struct" \/ name \notin DOMAIN q.v.p
         THEN Share(NoValue, "KeyNotFound")
    ELSE Share(q.v.p[name], NoFault)

QMap(q) ==
    IF q.e # NoFault THEN Res(<<>>, q.e)
    ELSE IF q.v.k # "struct" THEN Res(<<>>, "TypeMismatch")
    ELSE Res(q.v.p, NoFault)

QString(q) ==
    IF q.e # NoFault THEN Res("", q.e)
    ELSE IF q.v.k # "string" THEN Res("", "TypeMismatch")
    ELSE Res(q.v.p, NoFault)

QInt(q) ==
    IF q.e # NoFault THEN Res(0, q.e)
    ELSE IF q.v.k # "int" THEN Res(0, "TypeMismatch")
    ELSE Res(q.v.p, NoFault)

QBool(q) ==
    IF q.e # NoFault THEN Res(FALSE, q.e)
    ELSE IF q.v.k # "bool" THEN Res(FALSE, "TypeMismatch")
    ELSE Res(q.v.p, NoFault)

(* Native (interface{}) values: k is the dynamic type, p the payload *)
GoNil == [k |-> "go:nil", p |-> ""]
GoString(s) == [k |-> "go:string", p |-> s]
GoInt(i) == [k |-> "go:int", p |-> i]
GoBool(b) == [k |-> "go:bool", p |-> b]
GoList(l) == [k |-> "go:[]interface{}", p |-> l]
GoMap(m) == [k |-> "go:map[string]interface{}", p |-> m]
\* a native value that has no wire encoding (a channel, a func, ...)
GoChan == [k |-> "go:chan", p |-> ""]

RECURSIVE AnyOf(_)
AnyOf(v) ==
    CASE v.k = "string" -> GoString(v.p)
      [] v.k = "int" -> GoInt(v.p)
      [] v.k = "bool" -> GoBool(v.p)
      [] v.k = "array" -> GoList([i \in 1..Len(v.p) |-> AnyOf(v.p[i])])
      [] v.k = "struct" -> GoMap([n \in DOMAIN v.p |-> AnyOf(v.p[n])])
      [] OTHER -> GoNil

QAny(q) ==
    IF q.e # NoFault THEN Res(GoNil, q.e)
    ELSE Res(AnyOf(q.v), NoFault)

----------------------------------------------------------------------------
(* Domain records *)

RECURSIVE StringsFrom(_, _)
\* the elements of the Value sequence s coerced to strings, left to right,
\* all on the shared error slot e
StringsFrom(s, e) ==
    IF s = <<>> THEN Res(<<>>, e)
    ELSE LET x == QString(Share(Head(s), e))
             rest == StringsFrom(Tail(s), x.e)
         IN Res(<<x.r>> \o rest.r, rest.e)

\* DeviceDescription.ReadFrom: TYPE, ADDRESS and CHILDREN of a named map
DeviceReadFrom(q) ==
    LET t == QString(Key(q, "TYPE"))
        a == QString(Key(Share(q.v, t.e), "ADDRESS"))
        c == Slice(Key(Share(q.v, a.e), "CHILDREN"))
        cs == StringsFrom(c.r, c.e)
    IN Res([Type |-> t.r, Address |-> a.r, Children |-> cs.r], cs.e)

\* ParameterDescription.ReadFrom: TYPE and OPERATIONS of a named map
ParameterReadFrom(q) ==
    LET t == QString(Key(q, "TYPE"))
        o == QInt(Key(Share(q.v, t.e), "OPERATIONS"))
    IN Res([Type |-> t.r, Operations |-> o.r], o.e)

----------------------------------------------------------------------------
(* Errors.  kind tells who made the error, method names the wire method,   *)
(* cause lists the underlying faults, n is the argument count of an arity  *)
(* error.                                                                  *)

MkErr(kind, method, cause, n) ==
    [cause |-> cause, kind |-> kind, method |-> method, n |-> n]
NoErr == MkErr("nil", "", <<>>, 0)
\* fmt.Errorf("Expected N arguments for M method: %d", len)
ArityErr(method, n) == MkErr("Expected arguments", method, <<>>, n)
\* fmt.Errorf("Invalid argument(s) for M method: %v", q.Err())
ArgErr(method, fault) == MkErr("Invalid argument", method, <<fault>>, 0)
\* fmt.Errorf("Invalid device description for newDevices method: %v", q.Err())
DescrErr(method, fault) == MkErr("Invalid device description", method, <<fault>>, 0)
\* the errors a Receiver callback may return
ReceiverErr == MkErr("receiver", "", <<"device store is read-only">>, 0)
ReceiverReturns == {NoErr, ReceiverErr}

----------------------------------------------------------------------------
(* Handler (server role).  A handler's outcome: the response Value val,    *)
(* the error err, the Receiver callbacks it invoked (calls) and the        *)
(* indices of the arguments it read (inspected).                           *)

Out(val, err, calls, inspected) ==
    [val |-> val, err |-> err, calls |-> calls, inspected |-> inspected]
Call(cb, params) == [cb |-> cb, params |-> params]
\* &xmlrpc.Value{FlatString: ""}
EmptyString == StrV("")
\* &xmlrpc.Value{Array: &xmlrpc.Array{Data: []*xmlrpc.Value{}}}
EmptyArray == ArrV(<<>>)

RECURSIVE Touched(_, _)
\* es[i] is the error slot before argument i-1 is accessed: the argument is
\* read only when no fault has been recorded yet
Touched(es, i) ==
    IF i > Len(es) THEN <<>>
    ELSE (IF es[i] = NoFault THEN <<i - 1>> ELSE <<>>) \o Touched(es, i + 1)

\* mutant: the empty-string Value is returned together with the error
Forward_ValueAndError(cb, params, ret, inspected) ==
    Out(EmptyString, ret, <<Call(cb, params)>>, inspected)

\* mutant: the Receiver's error is wrapped in a new error
Forward_Wrapped(cb, params, ret, inspected) ==
    IF ret # NoErr
    THEN Out(NoValue, MkErr("Receiver failed", cb, ret.cause, 0),
             <<Call(cb, params)>>, inspected)
    ELSE Out(EmptyString, NoErr, <<Call(cb, params)>>, inspected)

\* if err != nil { return nil, err }; return &xmlrpc.Value{FlatString: ""}, nil
Forward(cb, params, ret, inspected) ==
    IF ret # NoErr THEN Out(NoValue, ret, <<Call(cb, params)>>, inspected)
    ELSE Out(EmptyString, NoErr, <<Call(cb, params)>>, inspected)

\* mutant: the arguments are decoded before their number is checked
eventHandler_DecodeFirst(args, ret) ==
    LET q == Q(args)
        interfaceID == QString(Idx(q, 0))
        address == QString(Idx(Share(args, interfaceID.e), 1))
        valueKey == QString(Idx(Share(args, address.e), 2))
        value == QAny(Idx(Share(args, valueKey.e), 3))
        seen == Touched(<<NoFault, interfaceID.e, address.e, valueKey.e>>, 1)
        n == Len(Slice(q).r)
    IN IF value.e # NoFault
       THEN Out(NoValue, ArgErr("event", value.e), <<>>, seen)
       ELSE IF n # 4 THEN Out(NoValue, ArityErr("event", n), <<>>, seen)
       ELSE Forward("Event", <<interfaceID.r, address.r, valueKey.r, value.r>>,
                    ret, seen)

eventHandler(args, ret) ==
    LET q == Q(args)
        n == Len(Slice(q).r)
    IN IF n # 4 THEN Out(NoValue, ArityErr("event", n), <<>>, <<>>)
       ELSE LET interfaceID == QString(Idx(q, 0))
                address == QString(Idx(Share(args, interfaceID.e), 1))
                valueKey == QString(Idx(Share(args, address.e), 2))
                value == QAny(Idx(Share(args, valueKey.e), 3))
                seen == Touched(<<NoFault, interfaceID.e, address.e, valueKey.e>>, 1)
            IN IF value.e # NoFault
               THEN Out(NoValue, ArgErr("event", value.e), <<>>, seen)
               ELSE Forward("Event",
                            <<interfaceID.r, address.r, valueKey.r, value.r>>,
                            ret, seen)

\* mutant: listDevices answers the empty string, as the other methods do
listDevicesHandler_Void(args, ret) ==
    LET q == Q(args)
        n == Len(Slice(q).r)
    IN IF n # 1 THEN Out(NoValue, ArityErr("listDevices", n), <<>>, <<>>)
       ELSE LET interfaceID == QString(Idx(q, 0))
            IN IF interfaceID.e # NoFault
               THEN Out(NoValue, ArgErr("listDevices", interfaceID.e), <<>>, <<0>>)
               ELSE Out(EmptyString, NoErr, <<>>, <<0>>)

listDevicesHandler(args, ret) ==
    LET q == Q(args)
        n == Len(Slice(q).r)
    IN IF n # 1 THEN Out(NoValue, ArityErr("listDevices", n), <<>>, <<>>)
       ELSE LET interfaceID == QString(Idx(q, 0))
            IN IF interfaceID.e # NoFault
               THEN Out(NoValue, ArgErr("listDevices", interfaceID.e), <<>>, <<0>>)
               ELSE Out(EmptyArray, NoErr, <<>>, <<0>>)

RECURSIVE ReadDevices_SkipBad(_)
\* mutant: a malformed device description is left out and the loop goes on
ReadDevices_SkipBad(s) ==
    IF s = <<>> THEN Res(<<>>, NoFault)
    ELSE LET d == DeviceReadFrom(Q(Head(s)))
             rest == ReadDevices_SkipBad(Tail(s))
         IN IF d.e # NoFault THEN rest
            ELSE Res(<<d.r>> \o rest.r, rest.e)

RECURSIVE ReadDevices(_)
\* the loop of the newDevices handler over the child Queries: the records
\* read so far (r) and the fault of the first element that did not read (e)
ReadDevices(s) ==
    IF s = <<>> THEN Res(<<>>, NoFault)
    ELSE LET d == DeviceReadFrom(Q(Head(s)))
         IN IF d.e # NoFault THEN Res(<<>>, d.e)
            ELSE LET rest == ReadDevices(Tail(s))
                 IN Res(<<d.r>> \o rest.r, rest.e)

\* mutant: an empty device list is refused
newDevicesHandler_RejectEmpty(args, ret) ==
    LET q == Q(args)
        n == Len(Slice(q).r)
    IN IF n # 2 THEN Out(NoValue, ArityErr("newDevices", n), <<>>, <<>>)
       ELSE LET interfaceID == QString(Idx(q, 0))
                devDescriptions == Slice(Idx(Share(args, interfaceID.e), 1))
                seen == Touched(<<NoFault, interfaceID.e>>, 1)
            IN IF devDescriptions.e # NoFault
               THEN Out(NoValue, ArgErr("newDevices", devDescriptions.e), <<>>, seen)
               ELSE IF devDescriptions.r = <<>>
               THEN Out(NoValue, ArgErr("newDevices", "IndexOutOfRange"), <<>>, seen)
               ELSE LET descr == ReadDevices(devDescriptions.r)
                    IN IF descr.e # NoFault
                       THEN Out(NoValue, DescrErr("newDevices", descr.e), <<>>, seen)
                       ELSE Forward("NewDevices", <<interfaceID.r, descr.r>>, ret, seen)

newDevicesHandler(args, ret) ==
    LET q == Q(args)
        n == Len(Slice(q).r)
    IN IF n # 2 THEN Out(NoValue, ArityErr("newDevices", n), <<>>, <<>>)
       ELSE LET interfaceID == QString(Idx(q, 0))
                devDescriptions == Slice(Idx(Share(args, interfaceID.e), 1))
                seen == Touched(<<NoFault, interfaceID.e>>, 1)
            IN IF devDescriptions.e # NoFault
               THEN Out(NoValue, ArgErr("newDevices", devDescriptions.e), <<>>, seen)
               ELSE LET descr == ReadDevices(devDescriptions.r)
                    IN IF descr.e # NoFault
                       THEN Out(NoValue, DescrErr("newDevices", descr.e), <<>>, seen)
                       ELSE Forward("NewDevices", <<interfaceID.r, descr.r>>, ret, seen)

\* the body shared, line for line, by the deleteDevices and readdedDevice
\* handlers: an interface id and a list of address strings
addressListHandler(method, cb, args, ret) ==
    LET q == Q(args)
        n == Len(Slice(q).r)
    IN IF n # 2 THEN Out(NoValue, ArityErr(method, n), <<>>, <<>>)
       ELSE LET interfaceID == QString(Idx(q, 0))
                addressesValue == Slice(Idx(Share(args, interfaceID.e), 1))
                addresses == StringsFrom(addressesValue.r, addressesValue.e)
                seen == Touched(<<NoFault, interfaceID.e>>, 1)
            IN IF addresses.e # NoFault
               THEN Out(NoValue, ArgErr(method, addresses.e), <<>>, seen)
               ELSE Forward(cb, <<interfaceID.r, addresses.r>>, ret, seen)

deleteDevicesHandler(args, ret) ==
    addressListHandler("deleteDevices", "DeleteDevices", args, ret)

updateDeviceHandler(args, ret) ==
    LET q == Q(args)
        n == Len(Slice(q).r)
    IN IF n # 3 THEN Out(NoValue, ArityErr("updateDevice", n), <<>>, <<>>)
       ELSE LET interfaceID == QString(Idx(q, 0))
                address == QString(Idx(Share(args, interfaceID.e), 1))
                hint == QInt(Idx(Share(args, address.e), 2))
                seen == Touched(<<NoFault, interfaceID.e, address.e>>, 1)
            IN IF hint.e # NoFault
               THEN Out(NoValue, ArgErr("updateDevice", hint.e), <<>>, seen)
               ELSE Forward("UpdateDevice",
                            <<interfaceID.r, address.r, hint.r>>, ret, seen)

replaceDeviceHandler(args, ret) ==
    LET q == Q(args)
        n == Len(Slice(q).r)
    IN IF n # 3 THEN Out(NoValue, ArityErr("replaceDevice", n), <<>>, <<>>)
       ELSE LET interfaceID == QString(Idx(q, 0))
                oldDeviceAddress == QString(Idx(Share(args, interfaceID.e), 1))
                newDeviceAddress == QString(Idx(Share(args, oldDeviceAddress.e), 2))
                seen == Touched(<<NoFault, interfaceID.e, oldDeviceAddress.e>>, 1)
            IN IF newDeviceAddress.e # NoFault
               THEN Out(NoValue, ArgErr("replaceDevice", newDeviceAddress.e), <<>>, seen)
               ELSE Forward("ReplaceDevice",
                            <<interfaceID.r, oldDeviceAddress.r, newDeviceAddress.r>>,
                            ret, seen)

\* mutant: readdedDevice is forwarded to the callback of deleteDevices
readdedDeviceHandler_WrongCallback(args, ret) ==
    addressListHandler("readdedDevice", "DeleteDevices", args, ret)

readdedDeviceHandler(args, ret) ==
    addressListHandler("readdedDevice", "ReaddedDevice", args, ret)

----------------------------------------------------------------------------
(* The inbound calls the controller may send.  Each parameter is drawn     *)
(* from a pool holding well-typed and ill-typed values; an argument list   *)
(* is any prefix of a method's parameters, or a well-typed list followed   *)
(* by up to MaxExtra more arguments; args may also be no list at all.      *)

RECURSIVE SeqsUpTo(_, _)
SeqsUpTo(S, n) ==
    IF n = 0 THEN {<<>>}
    ELSE LET shorter == SeqsUpTo(S, n - 1)
         IN shorter \cup {Append(s, x) : s \in {t \in shorter : Len(t) = n - 1}, x \in S}

DevA == MapV([TYPE |-> StrV("HM-LC-Sw1"), ADDRESS |-> StrV("A:0"),
              CHILDREN |-> ArrV(<<StrV("A:1")>>)])
DevB == MapV([TYPE |-> StrV("HM-LC-Sw1"), ADDRESS |-> StrV("A:1"),
              CHILDREN |-> ArrV(<<>>)])
\* a device description without its ADDRESS
DevBad == MapV([TYPE |-> StrV("HM-LC-Sw1"), CHILDREN |-> ArrV(<<>>)])
\* a device description whose TYPE is no string
DevBadType == MapV([TYPE |-> IntV(1), ADDRESS |-> StrV("A:2"),
                    CHILDREN |-> ArrV(<<>>)])

StrPool == {StrV("BidCos-RF"), IntV(7)}
AnyPool == {BoolV(TRUE), ArrV(<<IntV(1), StrV("x")>>)}
IntPool == {IntV(0), IntV(1), StrV("1")}
AddrLists == {ArrV(s) : s \in SeqsUpTo({StrV("A:1"), StrV("A:2"), IntV(7)}, MaxListLen)}
                \cup {StrV("A:1")}
DevLists == {ArrV(s) : s \in SeqsUpTo({DevA, DevB, DevBad}, MaxListLen)}
                \cup {StrV("A:1")}
ExtraPool == {StrV("extra")}

Methods == {"event", "listDevices", "newDevices", "deleteDevices",
            "updateDevice", "replaceDevice", "readdedDevice"}

\* the parameter pools of each method, in wire order
Signature(method) ==
    CASE method = "event" -> <<StrPool, StrPool, StrPool, AnyPool>>
      [] method = "listDevices" -> <<StrPool>>
      [] method = "newDevices" -> <<StrPool, DevLists>>
      [] method = "deleteDevices" -> <<StrPool, AddrLists>>
      [] method = "updateDevice" -> <<StrPool, StrPool, IntPool>>
      [] method = "replaceDevice" -> <<StrPool, StrPool, StrPool>>
      [] method = "readdedDevice" -> <<StrPool, AddrLists>>

\* one well-typed argument list of each method
GoodArgs(method) ==
    CASE method = "event" ->
            <<StrV("BidCos-RF"), StrV("A:1"), StrV("LEVEL"), BoolV(TRUE)>>
      [] method = "listDevices" -> <<StrV("BidCos-RF")>>
      [] method = "newDevices" -> <<StrV("BidCos-RF"), ArrV(<<DevA, DevB>>)>>
      [] method = "deleteDevices" ->
            <<StrV("BidCos-RF"), ArrV(<<StrV("A:1"), StrV("A:2")>>)>>
      [] method = "updateDevice" -> <<StrV("BidCos-RF"), StrV("A:1"), IntV(1)>>
      [] method = "replaceDevice" -> <<StrV("BidCos-RF"), StrV("A:1"), StrV("A:2")>>
      [] method = "readdedDevice" -> <<StrV("BidCos-RF"), ArrV(<<StrV("A:1")>>)>>

RECURSIVE ArgSeqs(_, _)
\* the argument sequences of length n <= arity drawn from the method's pools
ArgSeqs(method, n) ==
    IF n = 0 THEN {<<>>}
    ELSE {Append(s, x) : s \in ArgSeqs(method, n - 1), x \in Signature(method)[n]}

ArgsFor(method) ==
    {ArrV(s) : s \in UNION {ArgSeqs(method, n) : n \in 0..Len(Signature(method))}}
        \cup {ArrV(GoodArgs(method) \o extra) :
                    extra \in SeqsUpTo(ExtraPool, MaxExtra) \ {<<>>}}
        \cup {StrV("no list")}

----------------------------------------------------------------------------
(* Handler actions: one inbound call is decoded, validated, forwarded and  *)
(* answered in one step.                                                   *)

NoCall == [method |-> "none", args |-> NoValue, ret |-> NoErr,
           out |-> Out(NoValue, NoErr, <<>>, <<>>)]

\* the record of one inbound call and of what its handler did
Served(method, args, ret, out) ==
    [method |-> method, args |-> args, ret |-> ret, out |-> out]
\* the Receiver's log after the callbacks of the outcome
Logged(log, out) == log \o [i \in 1..Len(out.calls) |-> out.calls[i].cb]

DispatchEvent ==
    \E args \in ArgsFor("event"), ret \in ReceiverReturns :
        /\ dispatched < MaxDispatch
        /\ dispatched' = dispatched + 1
        /\ hLast' = Served("event", args, ret, eventHandler(args, ret))
        /\ recvLog' = Logged(recvLog, hLast'.out)
        /\ UNCHANGED kvars
        /\ UNCHANGED cvars

DispatchListDevices ==
    \E args \in ArgsFor("listDevices"), ret \in ReceiverReturns :
        /\ dispatched < MaxDispatch
        /\ dispatched' = dispatched + 1
        /\ hLast' = Served("listDevices", args, ret, listDevicesHandler(args, ret))
        /\ recvLog' = Logged(recvLog, hLast'.out)
        /\ UNCHANGED kvars
        /\ UNCHANGED cvars

DispatchNewDevices ==
    \E args \in ArgsFor("newDevices"), ret \in ReceiverReturns :
        /\ dispatched < MaxDispatch
        /\ dispatched' = dispatched + 1
        /\ hLast' = Served("newDevices", args, ret, newDevicesHandler(args, ret))
        /\ recvLog' = Logged(recvLog, hLast'.out)
        /\ UNCHANGED kvars
        /\ UNCHANGED cvars

DispatchDeleteDevices ==
    \E args \in ArgsFor("deleteDevices"), ret \in ReceiverReturns :
        /\ dispatched < MaxDispatch
        /\ dispatched' = dispatched + 1
        /\ hLast' = Served("deleteDevices", args, ret, deleteDevicesHandler(args, ret))
        /\ recvLog' = Logged(recvLog, hLast'.out)
        /\ UNCHANGED kvars
        /\ UNCHANGED cvars

DispatchUpdateDevice ==
    \E args \in ArgsFor("updateDevice"), ret \in ReceiverReturns :
        /\ dispatched < MaxDispatch
        /\ dispatched' = dispatched + 1
        /\ hLast' = Served("updateDevice", args, ret, updateDeviceHandler(args, ret))
        /\ recvLog' = Logged(recvLog, hLast'.out)
        /\ UNCHANGED kvars
        /\ UNCHANGED cvars

DispatchReplaceDevice ==
    \E args \in ArgsFor("replaceDevice"), ret \in ReceiverReturns :
        /\ dispatched < MaxDispatch
        /\ dispatched' = dispatched + 1
        /\ hLast' = Served("replaceDevice", args, ret, replaceDeviceHandler(args, ret))
        /\ recvLog' = Logged(recvLog, hLast'.out)
        /\ UNCHANGED kvars
        /\ UNCHANGED cvars

DispatchReaddedDevice ==
    \E args \in ArgsFor("readdedDevice"), ret \in ReceiverReturns :
        /\ dispatched < MaxDispatch
        /\ dispatched' = dispatched + 1
        /\ hLast' = Served("readdedDevice", args, ret, readdedDeviceHandler(args, ret))
        /\ recvLog' = Logged(recvLog, hLast'.out)
        /\ UNCHANGED kvars
        /\ UNCHANGED cvars

HandlerNext ==
    \/ DispatchEvent
    \/ DispatchListDevices
    \/ DispatchNewDevices
    \/ DispatchDeleteDevices
    \/ DispatchUpdateDevice
    \/ DispatchReplaceDevice
    \/ DispatchReaddedDevice

----------------------------------------------------------------------------
(* Concurrent dispatch.  The controller sends calls on independent         *)
(* connections; the calls are served at the same time, each by the handler *)
(* registered under its method name.  A call arrives, its handler decodes  *)
(* and validates the arguments, then calls the Receiver and returns.       *)

\* the names NewHandler registers: SystemMethods and the seven HandleFunc
Registered == Methods \cup {"system.listMethods"}

Connections == 1..MaxInFlight

Idle == [pc |-> "idle", method |-> "none", args |-> NoValue, ret |-> NoErr,
         out |-> Out(NoValue, NoErr, <<>>, <<>>)]

\* the calls sent on the connections: for each method a well-typed call,
\* and some that do not validate
ConcurrentCalls ==
    {<<m, ArrV(GoodArgs(m))>> : m \in Methods}
        \cup {<<"newDevices", ArrV(<<StrV("BidCos-RF"), ArrV(<<DevA, DevBad>>)>>)>>,
              <<"updateDevice", ArrV(<<StrV("BidCos-RF"), StrV("A:1")>>)>>}

\* the handler the registry holds for the method
HandlerFor(method, args, ret) ==
    CASE method = "event" -> eventHandler(args, ret)
      [] method = "listDevices" -> listDevicesHandler(args, ret)
      [] method = "newDevices" -> newDevicesHandler(args, ret)
      [] method = "deleteDevices" -> deleteDevicesHandler(args, ret)
      [] method = "updateDevice" -> updateDeviceHandler(args, ret)
      [] method = "replaceDevice" -> replaceDeviceHandler(args, ret)
      [] method = "readdedDevice" -> readdedDeviceHandler(args, ret)

\* mutant: the handlers keep the arguments in one place they all share, so
\* a handler works on the arguments of the call that arrived last
ArgsSeenBy_Shared(c) == inflight[arrivals[Len(arrivals)]].args

\* the arguments the handler serving connection c works on: its own
\* parameter args and the Query q := xmlrpc.Q(args) local to the invocation
ArgsSeenBy(c) == inflight[c].args

\* a call arrives on connection c and its handler is looked up
Arrive(c) ==
    \E call \in ConcurrentCalls :
        /\ inflight[c].pc = "idle"
        /\ call[1] \in registry
        /\ inflight' = [inflight EXCEPT ![c] =
                [Idle EXCEPT !.pc = "arrived", !.method = call[1], !.args = call[2]]]
        /\ arrivals' = Append(arrivals, c)
        /\ UNCHANGED <<registry, recvLog, dispatched, hLast>>
        /\ UNCHANGED cvars

\* the handler of connection c counts and decodes the arguments: it returns
\* an error or a Value at once, or is about to call the Receiver
Validate(c) ==
    LET o == HandlerFor(inflight[c].method, ArgsSeenBy(c), NoErr)
    IN /\ inflight[c].pc = "arrived"
       /\ inflight' = [inflight EXCEPT ![c].out = o,
                ![c].pc = IF o.calls = <<>> THEN "done" ELSE "calling"]
       /\ UNCHANGED <<registry, arrivals, recvLog, dispatched, hLast>>
       /\ UNCHANGED cvars

\* the handler of connection c calls the Receiver and returns what the
\* Receiver's return decides
Invoke(c) ==
    \E ret \in ReceiverReturns :
        LET pending == inflight[c].out.calls[1]
        IN /\ inflight[c].pc = "calling"
           /\ recvLog' = Append(recvLog, pending.cb)
           /\ inflight' = [inflight EXCEPT ![c].ret = ret, ![c].pc = "done",
                    ![c].out = Forward(pending.cb, pending.params, ret,
                                       inflight[c].out.inspected)]
           /\ UNCHANGED <<registry, arrivals, dispatched, hLast>>
           /\ UNCHANGED cvars

ConcurrentNext ==
    \E c \in Connections :
        \/ Arrive(c)
        \/ Validate(c)
        \/ Invoke(c)

----------------------------------------------------------------------------
(* Client (client role) *)

\* strings.HasPrefix
HasPrefix(s, prefix) ==
    Len(s) >= Len(prefix) /\ SubSeq(s, 1, Len(prefix)) = prefix

HttpScheme == <<"h", "t", "t", "p", ":", "/", "/">>

\* mutant: the scheme is matched without its "://"
NewClient_SchemeOnly(address) ==
    IF HasPrefix(address, <<"h", "t", "t", "p">>)
    THEN [Addr |-> address, rpcClient |-> "xmlrpc.Client"]
    ELSE [Addr |-> address, rpcClient |-> "binrpc.Client"]

\* the Client NewClient returns: its Addr and the transport it embeds
NewClient(address) ==
    IF HasPrefix(address, HttpScheme)
    THEN [Addr |-> address, rpcClient |-> "xmlrpc.Client"]
    ELSE [Addr |-> address, rpcClient |-> "binrpc.Client"]

\* model.NewValue: the wire Value of a native value, or an error
ConvertErr == MkErr("convert", "", <<"unsupported type">>, 0)
RECURSIVE NewValue(_)
NewValue(x) ==
    CASE x.k = "go:string" -> [r |-> StrV(x.p), err |-> NoErr]
      [] x.k = "go:int" -> [r |-> IntV(x.p), err |-> NoErr]
      [] x.k = "go:bool" -> [r |-> BoolV(x.p), err |-> NoErr]
      [] x.k = "go:[]interface{}" ->
            LET es == [i \in 1..Len(x.p) |-> NewValue(x.p[i])]
            IN IF \E i \in 1..Len(x.p) : es[i].err # NoErr
               THEN [r |-> NoValue, err |-> ConvertErr]
               ELSE [r |-> ArrV([i \in 1..Len(x.p) |-> es[i].r]), err |-> NoErr]
      [] x.k = "go:map[string]interface{}" ->
            LET es == [n \in DOMAIN x.p |-> NewValue(x.p[n])]
            IN IF \E n \in DOMAIN x.p : es[n].err # NoErr
               THEN [r |-> NoValue, err |-> ConvertErr]
               ELSE [r |-> MapV([n \in DOMAIN x.p |-> es[n].r]), err |-> NoErr]
      [] OTHER -> [r |-> NoValue, err |-> ConvertErr]

\* one rpcClient.Call(method, params)
Wire(method, params) == [method |-> method, params |-> params]
\* what an operation returns (res: the result, tagged with its type; err)
\* and the transport calls it made (sent)
Ret(res, err, sent) == [res |-> res, err |-> err, sent |-> sent]
Tag(type, payload) == [k |-> type, p |-> payload]
\* a nil pointer, slice, map or interface{}
Nil == Tag("nil", "")
\* an operation that returns only an error
NoResult == Tag("none", "")

\* fmt.Errorf("Invalid [XML] response for/from [method] M: %v", ...)
InvalidResponse(method, cause) == MkErr("Invalid response", method, cause, 0)
TransportErr == MkErr("transport", "", <<"connection refused">>, 0)

\* mutant: any string is accepted
assertEmptyResponse_AnyString(v) ==
    LET s == QString(Q(v))
    IN IF s.e # NoFault
       THEN MkErr("Expected empty string", "", <<>>, 0)
       ELSE NoErr

\* errors.New("Expected emtpy string as response"), or nil
assertEmptyResponse(v) ==
    LET s == QString(Q(v))
    IN IF s.e # NoFault \/ s.r # ""
       THEN MkErr("Expected empty string", "", <<>>, 0)
       ELSE NoErr

\* the tail shared by the operations that expect a void response
VoidCall(method, params, reply) ==
    IF reply.err # NoErr THEN Ret(NoResult, reply.err, <<Wire(method, params)>>)
    ELSE IF assertEmptyResponse(reply.val) # NoErr
         THEN Ret(NoResult,
                  InvalidResponse(method, <<assertEmptyResponse(reply.val).kind>>),
                  <<Wire(method, params)>>)
    ELSE Ret(NoResult, NoErr, <<Wire(method, params)>>)

\* mutant: the transport's error is not looked at before decoding
GetDeviceDescription_DecodeAnyway(deviceAddress, reply) ==
    LET sent == <<Wire("getDeviceDescription", <<StrV(deviceAddress)>>)>>
        d == DeviceReadFrom(Q(reply.val))
    IN IF d.e # NoFault
       THEN Ret(Nil, InvalidResponse("getDeviceDescription", <<d.e>>), sent)
       ELSE Ret(Tag("*DeviceDescription", d.r), reply.err, sent)

GetDeviceDescription(deviceAddress, reply) ==
    LET sent == <<Wire("getDeviceDescription", <<StrV(deviceAddress)>>)>>
    IN IF reply.err # NoErr THEN Ret(Nil, reply.err, sent)
       ELSE LET d == DeviceReadFrom(Q(reply.val))
            IN IF d.e # NoFault
               THEN Ret(Nil, InvalidResponse("getDeviceDescription", <<d.e>>), sent)
               ELSE Ret(Tag("*DeviceDescription", d.r), NoErr, sent)

RECURSIVE ReadAllDevices(_, _)
\* the loop of ListDevices: every element is read, on the shared error slot
ReadAllDevices(s, e) ==
    IF s = <<>> THEN Res(<<>>, e)
    ELSE LET d == DeviceReadFrom(Share(Head(s), e))
             rest == ReadAllDevices(Tail(s), d.e)
         IN Res(<<d.r>> \o rest.r, rest.e)

\* mutant: the records read before the fault are returned with the error
ListDevices_Partial(reply) ==
    LET sent == <<Wire("listDevices", <<>>)>>
    IN IF reply.err # NoErr THEN Ret(Nil, reply.err, sent)
       ELSE LET s == Slice(Q(reply.val))
                r == ReadAllDevices(s.r, s.e)
            IN IF r.e # NoFault
               THEN Ret(Tag("[]*DeviceDescription", r.r),
                        InvalidResponse("listDevices", <<r.e>>), sent)
               ELSE Ret(Tag("[]*DeviceDescription", r.r), NoErr, sent)

ListDevices(reply) ==
    LET sent == <<Wire("listDevices", <<>>)>>
    IN IF reply.err # NoErr THEN Ret(Nil, reply.err, sent)
       ELSE LET s == Slice(Q(reply.val))
                r == ReadAllDevices(s.r, s.e)
            IN IF r.e # NoFault
               THEN Ret(Nil, InvalidResponse("listDevices", <<r.e>>), sent)
               ELSE Ret(Tag("[]*DeviceDescription", r.r), NoErr, sent)

RECURSIVE ReadParameters(_, _, _)
\* the loop of GetParamsetDescription over the map m in the iteration order
\* names: it breaks at the first entry that faults
ReadParameters(m, names, acc) ==
    IF names = <<>> THEN Res(acc, NoFault)
    ELSE LET p == ParameterReadFrom(Q(m[Head(names)]))
         IN IF p.e # NoFault THEN Res(acc, p.e)
            ELSE ReadParameters(m, Tail(names),
                                acc \cup {<<Head(names), p.r>>})

\* order: the order in which range visits the map's keys (unspecified in Go)
GetParamsetDescription(deviceAddress, paramsetType, reply, order) ==
    LET sent == <<Wire("getParamsetDescription",
                       <<StrV(deviceAddress), StrV(paramsetType)>>)>>
    IN IF reply.err # NoErr THEN Ret(Nil, reply.err, sent)
       ELSE LET m == QMap(Q(reply.val))
                r == IF m.e # NoFault THEN Res({}, m.e)
                     ELSE ReadParameters(m.r, order, {})
            IN IF r.e # NoFault
               THEN Ret(Nil, InvalidResponse("getParamsetDescription", <<r.e>>), sent)
               ELSE Ret(Tag("ParamsetDescription", r.r), NoErr, sent)

GetParamset(deviceAddress, paramsetType, reply) ==
    LET sent == <<Wire("getParamset", <<StrV(deviceAddress), StrV(paramsetType)>>)>>
    IN IF reply.err # NoErr THEN Ret(Nil, reply.err, sent)
       ELSE LET m == QMap(Q(reply.val))
            IN IF m.e # NoFault
               THEN Ret(Nil, InvalidResponse("getParamset", <<m.e>>), sent)
               ELSE Ret(Tag("map[string]interface{}",
                            [n \in DOMAIN m.r |-> AnyOf(m.r[n])]), NoErr, sent)

PutParamset(deviceAddress, paramsetType, paramset, reply) ==
    LET ps == NewValue(paramset)
    IN IF ps.err # NoErr THEN Ret(NoResult, ps.err, <<>>)
       ELSE VoidCall("putParamset",
                     <<StrV(deviceAddress), StrV(paramsetType), ps.r>>, reply)

\* mutant: the transport is called before the value is converted
SetValue_CallFirst(deviceAddress, valueName, value, reply) ==
    LET v == NewValue(value)
        sent == <<Wire("setValue", <<StrV(deviceAddress), StrV(valueName), v.r>>)>>
    IN IF v.err # NoErr THEN Ret(NoResult, v.err, sent)
       ELSE VoidCall("setValue", <<StrV(deviceAddress), StrV(valueName), v.r>>, reply)

SetValue(deviceAddress, valueName, value, reply) ==
    LET v == NewValue(value)
    IN IF v.err # NoErr THEN Ret(NoResult, v.err, <<>>)
       ELSE VoidCall("setValue", <<StrV(deviceAddress), StrV(valueName), v.r>>, reply)

\* mutant: a failed transport call is tried a second time
GetValue_Retry(deviceAddress, valueName, reply) ==
    LET call == Wire("getValue", <<StrV(deviceAddress), StrV(valueName)>>)
    IN IF reply.err # NoErr THEN Ret(Nil, reply.err, <<call, call>>)
       ELSE LET res == QAny(Q(reply.val))
            IN IF res.e # NoFault
               THEN Ret(Nil, InvalidResponse("getValue", <<res.e>>), <<call>>)
               ELSE Ret(Tag("interface{}", res.r), NoErr, <<call>>)

GetValue(deviceAddress, valueName, reply) ==
    LET sent == <<Wire("getValue", <<StrV(deviceAddress), StrV(valueName)>>)>>
    IN IF reply.err # NoErr THEN Ret(Nil, reply.err, sent)
       ELSE LET res == QAny(Q(reply.val))
            IN IF res.e # NoFault
               THEN Ret(Nil, InvalidResponse("getValue", <<res.e>>), sent)
               ELSE Ret(Tag("interface{}", res.r), NoErr, sent)

ClientInit(receiverAddress, id, reply) ==
    VoidCall("init", <<StrV(receiverAddress), StrV(id)>>, reply)

\* mutant: the interface id is sent as an empty string
Deinit_EmptyId(receiverAddress, reply) ==
    VoidCall("init", <<StrV(receiverAddress), StrV("")>>, reply)

Deinit(receiverAddress, reply) ==
    VoidCall("init", <<StrV(receiverAddress)>>, reply)

\* mutant: only the boolean form of the response is decoded
Ping_BoolOnly(callerID, reply) ==
    LET sent == <<Wire("ping", <<StrV(callerID)>>)>>
    IN IF reply.err # NoErr THEN Ret(Tag("bool", FALSE), reply.err, sent)
       ELSE LET res == QBool(Q(reply.val))
            IN IF res.e # NoFault
               THEN Ret(Tag("bool", FALSE),
                        InvalidResponse("ping", <<res.e, res.e>>), sent)
               ELSE Ret(Tag("bool", res.r), NoErr, sent)

Ping(callerID, reply) ==
    LET sent == <<Wire("ping", <<StrV(callerID)>>)>>
    IN IF reply.err # NoErr THEN Ret(Tag("bool", FALSE), reply.err, sent)
       ELSE LET res == QBool(Q(reply.val))
            IN IF res.e # NoFault
               THEN LET res2 == QBool(Idx(Q(reply.val), 0))
                    IN IF res2.e # NoFault
                       THEN Ret(Tag("bool", FALSE),
                                InvalidResponse("ping", <<res.e, res2.e>>), sent)
                       ELSE Ret(Tag("bool", res2.r), NoErr, sent)
               ELSE Ret(Tag("bool", res.r), NoErr, sent)

Event(interfaceID, address, valueKey, value, reply) ==
    LET v == NewValue(value)
    IN IF v.err # NoErr THEN Ret(NoResult, v.err, <<>>)
       ELSE VoidCall("event",
                     <<StrV(interfaceID), StrV(address), StrV(valueKey), v.r>>, reply)

----------------------------------------------------------------------------
(* The addresses a Client is built for, the native values its callers      *)
(* supply and the replies the transport may give.                          *)

Addresses ==
    { <<"h", "t", "t", "p", ":", "/", "/", "c">>,
      <<"h", "t", "t", "p", ":", "/", "/">>,
      <<"H", "T", "T", "P", ":", "/", "/", "c">>,
      <<"h", "t", "t", "p", "s", ":", "/", "/", "c">>,
      <<"h", "t", "t", "p", ":", "/", "c">>,
      <<" ", "h", "t", "t", "p", ":", "/", "/", "c">>,
      <<"b", "i", "n", ":", "/", "/", "c">>,
      <<"c", ":", "2", "0", "0", "1">>,
      <<>> }

ParamA == MapV([TYPE |-> StrV("FLOAT"), OPERATIONS |-> IntV(7)])
ParamB == MapV([TYPE |-> StrV("BOOL"), OPERATIONS |-> IntV(5)])
\* a parameter description whose TYPE is no string
ParamBadType == MapV([TYPE |-> IntV(1), OPERATIONS |-> IntV(7)])
\* a parameter description without its OPERATIONS
ParamNoOps == MapV([TYPE |-> StrV("FLOAT")])

Responses ==
    { StrV(""), StrV("nonempty"), StrV("foo"), IntV(42), BoolV(TRUE), BoolV(FALSE),
      ArrV(<<>>), ArrV(<<BoolV(TRUE)>>), ArrV(<<BoolV(FALSE)>>),
      ArrV(<<BoolV(FALSE), BoolV(TRUE)>>), ArrV(<<StrV("foo")>>),
      ArrV(<<ArrV(<<BoolV(TRUE)>>)>>),
      DevA, DevBad, ArrV(<<DevA, DevB>>), ArrV(<<DevA, DevBad>>),
      ArrV(<<DevA, DevBadType, DevBad>>),
      MapV(<<>>),
      MapV([LEVEL |-> ParamA, WORKING |-> ParamB]),
      MapV([LEVEL |-> ParamBadType, WORKING |-> ParamNoOps]) }

Replies ==
    {[val |-> v, err |-> NoErr] : v \in Responses}
        \cup {[val |-> NoValue, err |-> TransportErr]}

\* the orders in which range may visit the keys of the Value, if it is a map
Orders(v) ==
    IF v.k # "struct" THEN {<<>>}
    ELSE LET keys == DOMAIN v.p
         IN {s \in [1..Cardinality(keys) -> keys] :
                \A i, j \in 1..Cardinality(keys) : i # j => s[i] # s[j]}

Paramsets == {GoMap([LEVEL |-> GoInt(1)]), GoMap([LEVEL |-> GoChan])}
NativeValues == {GoBool(TRUE), GoList(<<GoInt(1), GoString("x")>>),
                 GoChan, GoList(<<GoInt(1), GoChan>>)}
Ids == {"", "itf-1"}

----------------------------------------------------------------------------
(* Client actions: one public operation runs to its return in one step.    *)

NoOp == [op |-> "none", in |-> <<>>, reply |-> [val |-> NoValue, err |-> NoErr],
         out |-> Ret(NoResult, NoErr, <<>>)]

\* the record of one operation and of what it did
Issued(op, in, reply, out) == [op |-> op, in |-> in, reply |-> reply, out |-> out]

DoGetDeviceDescription ==
    \E reply \in Replies :
        /\ issued < MaxIssued
        /\ issued' = issued + 1
        /\ cLast' = Issued("GetDeviceDescription", <<"A:0">>, reply,
                           GetDeviceDescription("A:0", reply))
        /\ UNCHANGED <<Addr, rpcClient>>
        /\ UNCHANGED hvars

DoListDevices ==
    \E reply \in Replies :
        /\ issued < MaxIssued
        /\ issued' = issued + 1
        /\ cLast' = Issued("ListDevices", <<>>, reply, ListDevices(reply))
        /\ UNCHANGED <<Addr, rpcClient>>
        /\ UNCHANGED hvars

DoGetParamsetDescription ==
    \E reply \in Replies : \E order \in Orders(reply.val) :
        /\ issued < MaxIssued
        /\ issued' = issued + 1
        /\ cLast' = Issued("GetParamsetDescription", <<"A:1", "VALUES", order>>, reply,
                           GetParamsetDescription("A:1", "VALUES", reply, order))
        /\ UNCHANGED <<Addr, rpcClient>>
        /\ UNCHANGED hvars

DoGetParamset ==
    \E reply \in Replies :
        /\ issued < MaxIssued
        /\ issued' = issued + 1
        /\ cLast' = Issued("GetParamset", <<"A:1", "VALUES">>, reply,
                           GetParamset("A:1", "VALUES", reply))
        /\ UNCHANGED <<Addr, rpcClient>>
        /\ UNCHANGED hvars

DoPutParamset ==
    \E paramset \in Paramsets, reply \in Replies :
        /\ issued < MaxIssued
        /\ issued' = issued + 1
        /\ cLast' = Issued("PutParamset", <<"A:1", "VALUES", paramset>>, reply,
                           PutParamset("A:1", "VALUES", paramset, reply))
        /\ UNCHANGED <<Addr, rpcClient>>
        /\ UNCHANGED hvars

DoSetValue ==
    \E value \in NativeValues, reply \in Replies :
        /\ issued < MaxIssued
        /\ issued' = issued + 1
        /\ cLast' = Issued("SetValue", <<"A:1", "LEVEL", value>>, reply,
                           SetValue("A:1", "LEVEL", value, reply))
        /\ UNCHANGED <<Addr, rpcClient>>
        /\ UNCHANGED hvars

DoGetValue ==
    \E reply \in Replies :
        /\ issued < MaxIssued
        /\ issued' = issued + 1
        /\ cLast' = Issued("GetValue", <<"A:1", "LEVEL">>, reply, GetValue("A:1", "LEVEL", reply))
        /\ UNCHANGED <<Addr, rpcClient>>
        /\ UNCHANGED hvars

DoInit ==
    \E id \in Ids, reply \in Replies :
        /\ issued < MaxIssued
        /\ issued' = issued + 1
        /\ cLast' = Issued("Init", <<"http://app:2010", id>>, reply,
                           ClientInit("http://app:2010", id, reply))
        /\ UNCHANGED <<Addr, rpcClient>>
        /\ UNCHANGED hvars

DoDeinit ==
    \E reply \in Replies :
        /\ issued < MaxIssued
        /\ issued' = issued + 1
        /\ cLast' = Issued("Deinit", <<"http://app:2010">>, reply, Deinit("http://app:2010", reply))
        /\ UNCHANGED <<Addr, rpcClient>>
        /\ UNCHANGED hvars

DoPing ==
    \E reply \in Replies :
        /\ issued < MaxIssued
        /\ issued' = issued + 1
        /\ cLast' = Issued("Ping", <<"itf-1">>, reply, Ping("itf-1", reply))
        /\ UNCHANGED <<Addr, rpcClient>>
        /\ UNCHANGED hvars

DoEvent ==
    \E value \in NativeValues, reply \in Replies :
        /\ issued < MaxIssued
        /\ issued' = issued + 1
        /\ cLast' = Issued("Event", <<"itf-1", "A:1", "LEVEL", value>>, reply,
                           Event("itf-1", "A:1", "LEVEL", value, reply))
        /\ UNCHANGED <<Addr, rpcClient>>
        /\ UNCHANGED hvars

ClientNext ==
    \/ DoGetDeviceDescription
    \/ DoListDevices
    \/ DoGetParamsetDescription
    \/ DoGetParamset
    \/ DoPutParamset
    \/ DoSetValue
    \/ DoGetValue
    \/ DoInit
    \/ DoDeinit
    \/ DoPing
    \/ DoEvent

----------------------------------------------------------------------------
(* Specifications.  HandlerSpec: the controller sends inbound calls to a   *)
(* Handler.  ClientSpec: an application issues operations on a Client      *)
(* built by NewClient for some address.                                    *)

HandlerStart ==
    /\ recvLog = <<>>
    /\ dispatched = 0
    /\ hLast = NoCall
    /\ registry = Registered
    /\ inflight = [c \in Connections |-> Idle]
    /\ arrivals = <<>>

ClientStart(address) ==
    /\ Addr = NewClient(address).Addr
    /\ rpcClient = NewClient(address).rpcClient
    /\ issued = 0
    /\ cLast = NoOp

HandlerInit == HandlerStart /\ ClientStart(<<>>)
ClientInitial == HandlerStart /\ \E address \in Addresses : ClientStart(address)

HandlerSpec == HandlerInit /\ [][HandlerNext]_vars
ConcurrentSpec == HandlerInit /\ [][ConcurrentNext]_vars
ClientSpec == ClientInitial /\ [][ClientNext]_vars

----------------------------------------------------------------------------
(* Vocabulary of the properties *)

\* the number of arguments each method requires
Arity(method) ==
    CASE method = "event" -> 4
      [] method = "listDevices" -> 1
      [] method = "newDevices" -> 2
      [] method = "deleteDevices" -> 2
      [] method = "updateDevice" -> 3
      [] method = "replaceDevice" -> 3
      [] method = "readdedDevice" -> 2

\* the number of arguments the handler counts (none when args is no list)
ArgCount(args) == IF args.k = "array" THEN Len(args.p) ELSE 0

Forwarded == Methods \ {"listDevices"}

IsString(v) == v.k = "string"
IsStringList(v) == v.k = "array" /\ \A i \in 1..Len(v.p) : IsString(v.p[i])
IsDeviceList(v) == v.k = "array" /\ \A i \in 1..Len(v.p) : v.p[i] \in {DevA, DevB}

\* the argument lists of the right length whose every argument is well-typed
ValidArgs(method, args) ==
    /\ args.k = "array"
    /\ Len(args.p) = Arity(method)
    /\ IsString(args.p[1])
    /\ CASE method = "event" -> IsString(args.p[2]) /\ IsString(args.p[3])
         [] method = "listDevices" -> TRUE
         [] method = "newDevices" -> IsDeviceList(args.p[2])
         [] method = "deleteDevices" -> IsStringList(args.p[2])
         [] method = "updateDevice" -> IsString(args.p[2]) /\ args.p[3].k = "int"
         [] method = "replaceDevice" -> IsString(args.p[2]) /\ IsString(args.p[3])
         [] method = "readdedDevice" -> IsStringList(args.p[2])

VoidOps == {"PutParamset", "SetValue", "Init", "Deinit", "Event"}
ConvertingOps == {"PutParamset", "SetValue", "Event"}
ClientOps == {"GetDeviceDescription", "ListDevices", "GetParamsetDescription",
              "GetParamset", "PutParamset", "SetValue", "GetValue", "Init",
              "Deinit", "Ping", "Event"}

\* the wire method each operation calls
WireMethod(op) ==
    CASE op = "GetDeviceDescription" -> "getDeviceDescription"
      [] op = "ListDevices" -> "listDevices"
      [] op = "GetParamsetDescription" -> "getParamsetDescription"
      [] op = "GetParamset" -> "getParamset"
      [] op = "PutParamset" -> "putParamset"
      [] op = "SetValue" -> "setValue"
      [] op = "GetValue" -> "getValue"
      [] op = "Init" -> "init"
      [] op = "Deinit" -> "init"
      [] op = "Ping" -> "ping"
      [] op = "Event" -> "event"

\* the zero value of each operation's result
ZeroResult(op) ==
    IF op = "Ping" THEN Tag("bool", FALSE)
    ELSE IF op \in VoidOps THEN NoResult
    ELSE Nil

\* the transport was called and answered without error
Answered == Len(cLast.out.sent) > 0 /\ cLast.reply.err = NoErr

----------------------------------------------------------------------------
(* Properties of the Handler, under HandlerSpec *)

\* C1: a dispatch whose argument list has not exactly the number of
\* elements the method requires fails with the arity error of that method,
\* reads no argument and invokes no Receiver callback.
C1_ArityCheckedFirst ==
    (hLast.method \in Methods /\ ArgCount(hLast.args) # Arity(hLast.method)) =>
        /\ hLast.out.err = ArityErr(hLast.method, ArgCount(hLast.args))
        /\ hLast.out.val = NoValue
        /\ hLast.out.calls = <<>>
        /\ hLast.out.inspected = <<>>

\* C1 witness: event with three well-typed arguments is refused for its arity
C1_Witness ==
    /\ hLast.method = "event"
    /\ hLast.args = ArrV(<<StrV("BidCos-RF"), StrV("BidCos-RF"), StrV("BidCos-RF")>>)
    /\ hLast.out.err.kind = "Expected arguments"
    /\ hLast.out.err.n = 3
    /\ recvLog = <<>>

\* C2: listDevices with one string argument answers the empty list (no nil
\* value, no empty string) and invokes no Receiver callback, whatever the
\* Receiver would return and whatever was dispatched before.
C2_ListDevicesAlwaysEmpty ==
    (hLast.method = "listDevices" /\ ValidArgs("listDevices", hLast.args)) =>
        /\ hLast.out.val = ArrV(<<>>)
        /\ hLast.out.val # NoValue
        /\ hLast.out.val # StrV("")
        /\ hLast.out.err = NoErr
        /\ hLast.out.calls = <<>>
        /\ Len(recvLog) < dispatched

\* C2 witness: listDevices answered after a forwarded call, with a Receiver
\* that would have failed
C2_Witness ==
    /\ hLast.method = "listDevices"
    /\ ValidArgs("listDevices", hLast.args)
    /\ hLast.ret = ReceiverErr
    /\ dispatched = 2
    /\ Len(recvLog) = 1
    /\ hLast.out.val = ArrV(<<>>)

\* C8: newDevices with an interface id and an empty device list invokes
\* NewDevices exactly once, with that id and a list of length zero, and
\* answers the empty string when the Receiver returns no error.
C8_NewDevicesEmptyList ==
    (/\ hLast.method = "newDevices"
     /\ ValidArgs("newDevices", hLast.args)
     /\ hLast.args.p[2] = ArrV(<<>>)) =>
        /\ Len(hLast.out.calls) = 1
        /\ hLast.out.calls[1].cb = "NewDevices"
        /\ hLast.out.calls[1].params[1] = hLast.args.p[1].p
        /\ Len(hLast.out.calls[1].params[2]) = 0
        /\ (hLast.ret = NoErr =>
                hLast.out.val = StrV("") /\ hLast.out.err = NoErr)

\* C8 witness: newDevices("BidCos-RF", []) served with success
C8_Witness ==
    /\ hLast.method = "newDevices"
    /\ hLast.args = ArrV(<<StrV("BidCos-RF"), ArrV(<<>>)>>)
    /\ hLast.ret = NoErr
    /\ hLast.out.val = StrV("")
    /\ recvLog # <<>>

\* C9: a forwarded method called with valid arguments invokes the Receiver,
\* and the Receiver decides the outcome: its error is returned as it is,
\* with no Value; no error gives the empty-string Value.
C9_ReceiverDecides ==
    (hLast.method \in Forwarded /\ ValidArgs(hLast.method, hLast.args)) =>
        /\ Len(hLast.out.calls) = 1
        /\ (hLast.ret # NoErr =>
                hLast.out.err = hLast.ret /\ hLast.out.val = NoValue)
        /\ (hLast.ret = NoErr =>
                hLast.out.err = NoErr /\ hLast.out.val = StrV(""))

\* C9 witness: replaceDevice fails with the Receiver's own error
C9_Witness ==
    /\ hLast.method = "replaceDevice"
    /\ ValidArgs("replaceDevice", hLast.args)
    /\ hLast.ret = ReceiverErr
    /\ hLast.out.err = ReceiverErr
    /\ hLast.out.calls # <<>>

----------------------------------------------------------------------------
(* Properties of the Client, under ClientSpec *)

IsBoolList(v) == v.k = "array" /\ Len(v.p) >= 1 /\ v.p[1].k = "bool"
IsOneBool(v) == IsBoolList(v) /\ Len(v.p) = 1

\* what Ping does with a boolean and with a list that starts with a boolean
PingDecodes ==
    /\ cLast.reply.val.k = "bool" =>
            cLast.out.res = Tag("bool", cLast.reply.val.p) /\ cLast.out.err = NoErr
    /\ IsBoolList(cLast.reply.val) =>
            /\ cLast.out.res = Tag("bool", cLast.reply.val.p[1].p)
            /\ cLast.out.err = NoErr

\* Ping fails, reporting the fault of the boolean decode and then the fault
\* of the list decode
PingReportsBoth ==
    /\ cLast.out.res = Tag("bool", FALSE)
    /\ cLast.out.err.kind = "Invalid response"
    /\ cLast.out.err.method = "ping"
    /\ Len(cLast.out.err.cause) = 2
    /\ cLast.out.err.cause[1] = "TypeMismatch"
    /\ cLast.out.err.cause[2] \in {"TypeMismatch", "IndexOutOfRange"}

\* C3 as stated: every response that is neither a boolean nor a list of
\* exactly one boolean makes Ping fail.
C3_AsStated ==
    (cLast.op = "Ping" /\ Answered) =>
        /\ PingDecodes
        /\ (cLast.reply.val.k # "bool" /\ ~IsOneBool(cLast.reply.val)) =>
                PingReportsBoth

\* C3 amended: a boolean b gives (b, nil); a list whose first element is a
\* boolean b gives (b, nil), however long the list; every other response
\* makes Ping fail with an error that reports both decode faults.
C3_PingDecoding ==
    (cLast.op = "Ping" /\ Answered) =>
        /\ PingDecodes
        /\ (cLast.reply.val.k # "bool" /\ ~IsBoolList(cLast.reply.val)) =>
                PingReportsBoth

\* C3 witness: the one-element list [true] is taken as true
C3_Witness ==
    /\ cLast.op = "Ping"
    /\ cLast.reply.val = ArrV(<<BoolV(TRUE)>>)
    /\ cLast.out.res = Tag("bool", TRUE)
    /\ cLast.out.err = NoErr

\* C4: a void operation succeeds only if the transport answered the empty
\* string; every other answer gives an invalid-response error that names
\* the wire method.
C4_VoidNeedsEmptyString ==
    (cLast.op \in VoidOps) =>
        /\ (cLast.out.err = NoErr) =>
                (Answered /\ cLast.reply.val = StrV(""))
        /\ (Answered /\ cLast.reply.val # StrV("")) =>
                /\ cLast.out.err.kind = "Invalid response"
                /\ cLast.out.err.method = WireMethod(cLast.op)
        /\ (Answered /\ cLast.reply.val = StrV("")) => cLast.out.err = NoErr

\* C4 witness: SetValue answered 42 is a protocol violation
C4_Witness ==
    /\ cLast.op = "SetValue"
    /\ cLast.reply.val = IntV(42)
    /\ Answered
    /\ cLast.out.err.kind = "Invalid response"
    /\ cLast.out.err.method = "setValue"

\* the value an operation converts before it calls the transport
ConvertedInput == cLast.in[Len(cLast.in)]

\* C5 as stated: every operation makes exactly one transport call.
C5_AsStated ==
    (cLast.op \in ClientOps) => Len(cLast.out.sent) = 1

\* C5 amended: every operation makes exactly one transport call, except
\* that PutParamset, SetValue and Event make none when the value they are
\* given cannot be converted; no operation ever makes more than one.
C5_AtMostOneCall ==
    (cLast.op \in ClientOps) =>
        /\ Len(cLast.out.sent) <= 1
        /\ (Len(cLast.out.sent) = 0) <=>
                (/\ cLast.op \in ConvertingOps
                 /\ NewValue(ConvertedInput).err # NoErr)
        /\ (Len(cLast.out.sent) = 1) =>
                cLast.out.sent[1].method = WireMethod(cLast.op)

\* C5 witness: Ping made its one call although the response failed validation
C5_Witness ==
    /\ cLast.op = "Ping"
    /\ cLast.reply.val = StrV("foo")
    /\ cLast.out.err.kind = "Invalid response"
    /\ Len(cLast.out.sent) = 1

\* C6: Deinit calls "init" with one argument, the receiver address; Init
\* calls "init" with two, the receiver address and the interface id.
C6_DeinitOmitsId ==
    /\ (cLast.op = "Deinit") =>
            cLast.out.sent = <<Wire("init", <<StrV(cLast.in[1])>>)>>
    /\ (cLast.op = "Init") =>
            cLast.out.sent = <<Wire("init", <<StrV(cLast.in[1]), StrV(cLast.in[2])>>)>>

\* C6 witness: a Deinit that sent one argument and succeeded
C6_Witness ==
    /\ cLast.op = "Deinit"
    /\ Len(cLast.out.sent[1].params) = 1
    /\ cLast.out.sent[1].method = "init"
    /\ cLast.out.err = NoErr

\* C7: the Client embeds the XML-RPC transport exactly when its address
\* starts with "http://", and the binary transport otherwise, in every
\* state, whatever operations ran.
C7_TransportFromAddress ==
    LET http == /\ Len(Addr) >= 7
                /\ Addr[1] = "h" /\ Addr[2] = "t" /\ Addr[3] = "t" /\ Addr[4] = "p"
                /\ Addr[5] = ":" /\ Addr[6] = "/" /\ Addr[7] = "/"
    IN /\ rpcClient \in {"xmlrpc.Client", "binrpc.Client"}
       /\ (rpcClient = "xmlrpc.Client") <=> http

\* C7 witness: a Client for "HTTP://c" still on the binary transport after
\* a failed and then a further operation
C7_Witness ==
    /\ Addr = <<"H", "T", "T", "P", ":", "/", "/", "c">>
    /\ rpcClient = "binrpc.Client"
    /\ issued = 2
    /\ cLast.out.err # NoErr

\* C10: when the transport call fails the operation returns the transport's
\* error as it is, with the zero value as result, and makes no other call.
C10_TransportErrorPassedThrough ==
    (cLast.op \in ClientOps /\ Len(cLast.out.sent) > 0 /\ cLast.reply.err # NoErr) =>
        /\ cLast.out.err = cLast.reply.err
        /\ cLast.out.res = ZeroResult(cLast.op)
        /\ Len(cLast.out.sent) = 1

\* C10 witness: GetDeviceDescription on a failing transport
C10_Witness ==
    /\ cLast.op = "GetDeviceDescription"
    /\ cLast.reply.err = TransportErr
    /\ cLast.out.err = TransportErr
    /\ cLast.out.res = Nil
    /\ Len(cLast.out.sent) = 1

DecodingOps == {"GetDeviceDescription", "ListDevices", "GetParamsetDescription",
                "GetParamset", "GetValue"}

\* the faults met when the response is decoded for the operation, in the
\* order of the traversal (a map's entries in the order range visits them)
DecodeFaults(op, v, in) ==
    CASE op = "GetDeviceDescription" -> <<DeviceReadFrom(Q(v)).e>>
      [] op = "ListDevices" ->
            IF v.k # "array" THEN <<"TypeMismatch">>
            ELSE [i \in 1..Len(v.p) |-> DeviceReadFrom(Q(v.p[i])).e]
      [] op = "GetParamsetDescription" ->
            IF v.k # "struct" THEN <<"TypeMismatch">>
            ELSE [i \in 1..Len(in[3]) |-> ParameterReadFrom(Q(v.p[in[3][i]])).e]
      [] op = "GetParamset" ->
            IF v.k # "struct" THEN <<"TypeMismatch">> ELSE <<>>
      [] op = "GetValue" -> <<>>

\* the first fault of the sequence, or NoFault
FirstFault(fs) ==
    IF \A i \in 1..Len(fs) : fs[i] = NoFault THEN NoFault
    ELSE fs[CHOOSE i \in 1..Len(fs) :
                fs[i] # NoFault /\ \A j \in 1..(i - 1) : fs[j] = NoFault]

\* C11: when the response does not decode into the operation's result, the
\* operation returns a nil result and an invalid-response error that names
\* the method and carries the first fault met; when it decodes, the
\* operation returns no error.
C11_InvalidResponseNoPartialResult ==
    (cLast.op \in DecodingOps /\ Answered) =>
        LET first == FirstFault(DecodeFaults(cLast.op, cLast.reply.val, cLast.in))
        IN /\ (first # NoFault) =>
                /\ cLast.out.res = Nil
                /\ cLast.out.err = InvalidResponse(WireMethod(cLast.op), <<first>>)
           /\ (first = NoFault) => cLast.out.err = NoErr

\* C11 witness: ListDevices answered a list whose second and third elements
\* are malformed in different ways reports the second element's fault
C11_Witness ==
    /\ cLast.op = "ListDevices"
    /\ cLast.reply.val = ArrV(<<DevA, DevBadType, DevBad>>)
    /\ cLast.out.res = Nil
    /\ cLast.out.err = InvalidResponse("listDevices", <<"TypeMismatch">>)

----------------------------------------------------------------------------
(* Decoding order of the handlers, under HandlerSpec *)

\* what decoding one argument on its own gives: the error kind a fault in
\* it is reported under, and its faults from left to right (a list
\* argument: the list's own fault, or those of its elements)
Item(kind, fault) == [kind |-> kind, fault |-> fault]
StringItem(v) == <<Item("Invalid argument", QString(Q(v)).e)>>
IntItem(v) == <<Item("Invalid argument", QInt(Q(v)).e)>>
StringListItems(v) ==
    IF v.k # "array" THEN <<Item("Invalid argument", "TypeMismatch")>>
    ELSE [i \in 1..Len(v.p) |-> Item("Invalid argument", QString(Q(v.p[i])).e)]
DeviceListItems(v) ==
    IF v.k # "array" THEN <<Item("Invalid argument", "TypeMismatch")>>
    ELSE [i \in 1..Len(v.p) |->
            Item("Invalid device description", DeviceReadFrom(Q(v.p[i])).e)]

\* the decoding steps of a method on an argument list of the right length,
\* in wire order
DecodeItems(method, a) ==
    CASE method = "event" -> StringItem(a[1]) \o StringItem(a[2]) \o StringItem(a[3])
      [] method = "listDevices" -> StringItem(a[1])
      [] method = "newDevices" -> StringItem(a[1]) \o DeviceListItems(a[2])
      [] method = "deleteDevices" -> StringItem(a[1]) \o StringListItems(a[2])
      [] method = "updateDevice" -> StringItem(a[1]) \o StringItem(a[2]) \o IntItem(a[3])
      [] method = "replaceDevice" ->
            StringItem(a[1]) \o StringItem(a[2]) \o StringItem(a[3])
      [] method = "readdedDevice" -> StringItem(a[1]) \o StringListItems(a[2])

Faulty(items) == {i \in 1..Len(items) : items[i].fault # NoFault}
\* the leftmost faulty step
FirstFaulty(items) ==
    items[CHOOSE i \in Faulty(items) : \A j \in Faulty(items) : i <= j]

RightArity ==
    /\ hLast.method \in Methods
    /\ hLast.args.k = "array"
    /\ Len(hLast.args.p) = Arity(hLast.method)

\* C12: with the right number of arguments, a fault in any argument or in
\* any element of a list argument makes the dispatch fail with an error
\* that names the method and carries the leftmost fault, without a Value and
\* without any Receiver callback; the Receiver is invoked only when
\* everything decoded.
C12_FirstFaultNoCallback ==
    RightArity =>
        LET items == DecodeItems(hLast.method, hLast.args.p)
        IN /\ (Faulty(items) # {}) =>
                /\ hLast.out.err = MkErr(FirstFaulty(items).kind, hLast.method,
                                         <<FirstFaulty(items).fault>>, 0)
                /\ hLast.out.val = NoValue
                /\ hLast.out.calls = <<>>
           /\ (hLast.out.calls # <<>>) => Faulty(items) = {}

\* C12 witness: newDevices with a good and then a malformed description
\* fails on the malformed one and forwards nothing
C12_Witness ==
    /\ hLast.method = "newDevices"
    /\ hLast.args = ArrV(<<StrV("BidCos-RF"), ArrV(<<DevA, DevBad>>)>>)
    /\ hLast.out.err = DescrErr("newDevices", "KeyNotFound")
    /\ hLast.out.calls = <<>>
    /\ recvLog = <<>>

\* C13: every dispatch ends either with a response Value and no error, or
\* with an error and no response Value, never with both or with neither.
C13_ValueOrError ==
    (hLast.method \in Methods) =>
        (hLast.out.val # NoValue) <=> (hLast.out.err = NoErr)

\* C13 witness: an updateDevice that ended with the Receiver's error and no
\* Value
C13_Witness ==
    /\ hLast.method = "updateDevice"
    /\ hLast.out.err = ReceiverErr
    /\ hLast.out.val = NoValue
    /\ hLast.out.calls # <<>>

\* the Receiver callback of each forwarded method
CallbackOf(method) ==
    CASE method = "event" -> "Event"
      [] method = "newDevices" -> "NewDevices"
      [] method = "deleteDevices" -> "DeleteDevices"
      [] method = "updateDevice" -> "UpdateDevice"
      [] method = "replaceDevice" -> "ReplaceDevice"
      [] method = "readdedDevice" -> "ReaddedDevice"
      [] OTHER -> "none"

\* the strings of a list of string Values, in the list's order
StringsOf(v) == [i \in 1..Len(v.p) |-> v.p[i].p]
\* the device records of a list of device-description maps, in the list's order
DevicesOf(v) ==
    [i \in 1..Len(v.p) |->
        [Type |-> v.p[i].p.TYPE.p, Address |-> v.p[i].p.ADDRESS.p,
         Children |-> StringsOf(v.p[i].p.CHILDREN)]]

\* the parameters the callback of the method is to be given for the
\* arguments a, in wire order
ExpectedParams(method, a) ==
    CASE method = "event" -> <<a[1].p, a[2].p, a[3].p, AnyOf(a[4])>>
      [] method = "newDevices" -> <<a[1].p, DevicesOf(a[2])>>
      [] method = "deleteDevices" -> <<a[1].p, StringsOf(a[2])>>
      [] method = "updateDevice" -> <<a[1].p, a[2].p, a[3].p>>
      [] method = "replaceDevice" -> <<a[1].p, a[2].p, a[3].p>>
      [] method = "readdedDevice" -> <<a[1].p, StringsOf(a[2])>>

\* C14: no dispatch invokes more than one callback or the callback of
\* another method; a successful dispatch of a forwarded method invokes its
\* own callback exactly once, with the decoded arguments in wire order and
\* the elements of a list argument in the list's order.
C14_OneMatchingCallback ==
    (hLast.method \in Methods) =>
        /\ Len(hLast.out.calls) <= 1
        /\ Len(recvLog) <= dispatched
        /\ (hLast.out.calls # <<>>) =>
                /\ hLast.out.calls[1].cb = CallbackOf(hLast.method)
                /\ recvLog[Len(recvLog)] = CallbackOf(hLast.method)
        /\ (hLast.method \in Forwarded /\ hLast.out.err = NoErr) =>
                /\ Len(hLast.out.calls) = 1
                /\ hLast.out.calls[1].params =
                        ExpectedParams(hLast.method, hLast.args.p)

\* C14 witness: readdedDevice after deleteDevices, each forwarded to its own
\* callback, the two addresses in the order they were sent
C14_Witness ==
    /\ hLast.method = "readdedDevice"
    /\ hLast.args = ArrV(<<StrV("BidCos-RF"), ArrV(<<StrV("A:2"), StrV("A:1")>>)>>)
    /\ hLast.out.err = NoErr
    /\ hLast.out.calls = <<Call("ReaddedDevice", <<"BidCos-RF", <<"A:2", "A:1">>>>)>>
    /\ recvLog = <<"DeleteDevices", "ReaddedDevice">>

----------------------------------------------------------------------------
(* Conversion before the call, under ClientSpec *)

\* C16: when PutParamset, SetValue or Event is given a value that does not
\* convert to a wire Value, it returns the conversion error and makes no
\* transport call.
C16_NoCallForUnconvertible ==
    (cLast.op \in ConvertingOps /\ NewValue(ConvertedInput).err # NoErr) =>
        /\ cLast.out.sent = <<>>
        /\ cLast.out.err = NewValue(ConvertedInput).err
        /\ cLast.out.err.kind = "convert"

\* C16 witness: Event given a list that holds a channel sends nothing
C16_Witness ==
    /\ cLast.op = "Event"
    /\ ConvertedInput = GoList(<<GoInt(1), GoChan>>)
    /\ cLast.out.sent = <<>>
    /\ cLast.out.err = ConvertErr

----------------------------------------------------------------------------
(* Concurrent inbound calls, under ConcurrentSpec *)

====
